---- MODULE Spec2Model ----
(***************************************************************************)
(* Model of rpc.RPCClient (src/rpc/rpc.go): the JSON-RPC transport         *)
(* (doPost), the typed calls, the health record (sick, sickRate,           *)
(* successRate, FailsCount) and the cached info snapshot.                  *)
(*                                                                         *)
(* Every call is one action; the daemon's answer to the call is drawn from *)
(* Responses.  The variables last, cleanFails, sickOkRun, runGrowth and    *)
(* probeRun are observers: they record what the last call did and how long *)
(* the current run of events is, and never influence the client.           *)
(***************************************************************************)
EXTENDS Integers, FiniteSets, Sequences, TLC

\* ---------------------------------------------------------------- bounds
MaxRate  == 6      \* no failure is delivered once sickRate = MaxRate
MaxFails == 6      \* no failure is delivered that would push FailsCount past MaxFails
MaxRun   == 6      \* the observers of run lengths saturate here
NProcs   == 3      \* concurrent callers in the concurrent specifications

\* ---------------------------------------------------------------- program constants
SickThreshold  == 5     \* if r.sickRate >= 5
AliveThreshold == 5     \* if r.successRate >= 5
StatusLow      == 200   \* resp.StatusCode < 200
StatusHigh     == 400   \* resp.StatusCode >= 400

VARIABLES
    sick,          \* RPCClient.sick
    sickRate,      \* RPCClient.sickRate
    successRate,   \* RPCClient.successRate
    FailsCount,    \* RPCClient.FailsCount
    info,          \* RPCClient.info (atomic.Value)
    crashed,       \* the process died of an unrecovered panic
    last,          \* the last call: operation, daemon response, what it returned
    cleanFails,    \* failure notifications in a row since Alive with both counters 0
    sickOkRun,     \* successful Checks in a row, made while Sick, since the last failure
    runGrowth,     \* growth of FailsCount during the current run of failures
    probeRun,      \* Checks in a row answered HTTP 500, the first made while Alive
    procs,         \* the concurrent callers: operation, position, locals
    mutex,         \* RPCClient.RWMutex: 0 when free, else the caller holding Lock
    start,         \* the health record the concurrent callers started from
    published      \* the replies that successful refreshes returned

vars    == <<sick, sickRate, successRate, FailsCount, info, crashed,
             last, cleanFails, sickOkRun, runGrowth, probeRun,
             procs, mutex, start, published>>

\* ---------------------------------------------------------------- the daemon
Statuses == {199, 200, 399, 400, 500}
Messages == {"Invalid params", "Block not accepted"}
Heights  == {100, 101}

\* What client.Do and the response body can be.  body:
\*   "malformed"   not JSON                       "null"    the JSON value null
\*   "error"       error object, string message   "errorNoMsg" error object, no string message
\*   "resultNull"  no error, result null          "result"  no error, result decodes
\*   "resultBadType" no error, result of the wrong JSON type
Resp(conn, status, body, msg, val) ==
    [conn |-> conn, status |-> status, body |-> body, msg |-> msg, val |-> val]

GoodStatuses == {s \in Statuses : s >= 200 /\ s < 400}

\* The body of a response whose status is refused is never read; every kind
\* of body is tried with status 200, the other accepted statuses carry a
\* null result.
Responses ==
    {Resp(FALSE, 0, "none", "", 0)}
    \cup {Resp(TRUE, s, "none", "", 0) : s \in Statuses \ GoodStatuses}
    \cup {Resp(TRUE, s, "resultNull", "", 0) : s \in GoodStatuses}
    \cup {Resp(TRUE, 200, b, "", 0) : b \in {"malformed", "null", "errorNoMsg", "resultBadType"}}
    \cup {Resp(TRUE, 200, "error", m, 0) : m \in Messages}
    \cup {Resp(TRUE, 200, "result", "", v) : v \in Heights}

\* ---------------------------------------------------------------- values
NoErr          == [kind |-> "nil", msg |-> ""]
ConnErr        == [kind |-> "conn", msg |-> "connection failed"]
DecodeErr      == [kind |-> "decode", msg |-> "invalid character"]
UnmarshalErr   == [kind |-> "unmarshal", msg |-> "cannot unmarshal"]
PanicErr       == [kind |-> "panic", msg |-> ""]
AppErr(m)      == [kind |-> "app", msg |-> m]

StatusText(s) ==
    CASE s = 199 -> "199 status"
      [] s = 200 -> "200 OK"
      [] s = 399 -> "399 status"
      [] s = 400 -> "400 Bad Request"
      [] s = 500 -> "500 Internal Server Error"
      [] OTHER   -> "status"
StatusErr(s)   == [kind |-> "status", msg |-> StatusText(s)]

\* a reply pointer: nil, or a struct holding the decoded payload
NilReply       == [nil |-> TRUE,  val |-> 0]
Reply(v)       == [nil |-> FALSE, val |-> v]

\* ---------------------------------------------------------------- health record
Health == [sick |-> sick, sickRate |-> sickRate,
           successRate |-> successRate, FailsCount |-> FailsCount]

\* markSick turning the client Sick one failure early
markSickEarly(h) ==
    LET fc == IF ~h.sick THEN h.FailsCount + 1 ELSE h.FailsCount
        sr == h.sickRate + 1
    IN  [sick        |-> IF sr >= SickThreshold - 1 THEN TRUE ELSE h.sick,
         sickRate    |-> sr,
         successRate |-> 0,
         FailsCount  |-> fc]

\* markSick counting a failure streak once, when it turns the client Sick
markSickCountOnEntry(h) ==
    LET sr == h.sickRate + 1
        fc == IF ~h.sick /\ sr >= SickThreshold THEN h.FailsCount + 1 ELSE h.FailsCount
    IN  [sick        |-> IF sr >= SickThreshold THEN TRUE ELSE h.sick,
         sickRate    |-> sr,
         successRate |-> 0,
         FailsCount  |-> fc]

\* markSick restarting the failure streak whenever a success streak was running
markSickRestart(h) ==
    LET fc == IF ~h.sick THEN h.FailsCount + 1 ELSE h.FailsCount
        sr == IF h.successRate > 0 /\ ~h.sick THEN 1 ELSE h.sickRate + 1
    IN  [sick        |-> IF sr >= SickThreshold THEN TRUE ELSE h.sick,
         sickRate    |-> sr,
         successRate |-> 0,
         FailsCount  |-> fc]

\* markSick counting every failure in FailsCount, Sick or not
markSickCountAll(h) ==
    LET sr == h.sickRate + 1
    IN  [sick        |-> IF sr >= SickThreshold THEN TRUE ELSE h.sick,
         sickRate    |-> sr,
         successRate |-> 0,
         FailsCount  |-> h.FailsCount + 1]

\* markSick leaving the success streak alone
markSickKeepSuccess(h) ==
    LET fc == IF ~h.sick THEN h.FailsCount + 1 ELSE h.FailsCount
        sr == h.sickRate + 1
    IN  [sick        |-> IF sr >= SickThreshold THEN TRUE ELSE h.sick,
         sickRate    |-> sr,
         successRate |-> h.successRate,
         FailsCount  |-> fc]

\* markSick turning the client Sick one failure late
markSickLate(h) ==
    LET fc == IF ~h.sick THEN h.FailsCount + 1 ELSE h.FailsCount
        sr == h.sickRate + 1
    IN  [sick        |-> IF sr > SickThreshold THEN TRUE ELSE h.sick,
         sickRate    |-> sr,
         successRate |-> 0,
         FailsCount  |-> fc]

markSick(h) ==
    LET fc == IF ~h.sick THEN h.FailsCount + 1 ELSE h.FailsCount
        sr == h.sickRate + 1
    IN  [sick        |-> IF sr >= SickThreshold THEN TRUE ELSE h.sick,
         sickRate    |-> sr,
         successRate |-> 0,
         FailsCount  |-> fc]

\* markAlive clearing the failure streak on every success
markAliveResetRate(h) ==
    LET s == h.successRate + 1
    IN  IF s >= AliveThreshold
        THEN [h EXCEPT !.sick = FALSE, !.sickRate = 0, !.successRate = 0]
        ELSE [h EXCEPT !.successRate = s, !.sickRate = 0]

\* markAlive forgetting to clear the failure streak
markAliveKeepRate(h) ==
    LET s == h.successRate + 1
    IN  IF s >= AliveThreshold
        THEN [h EXCEPT !.sick = FALSE, !.successRate = 0]
        ELSE [h EXCEPT !.successRate = s]

markAlive(h) ==
    LET s == h.successRate + 1
    IN  IF s >= AliveThreshold
        THEN [h EXCEPT !.sick = FALSE, !.sickRate = 0, !.successRate = 0]
        ELSE [h EXCEPT !.successRate = s]

Sick(h) == h.sick

\* ---------------------------------------------------------------- transport
\* The outcome of a call: the health record after it, the error and reply
\* returned, whether it panicked, and how many notifications it made.
Out(h, err, reply, panic, nSick, nAlive) ==
    [h |-> h, err |-> err, reply |-> reply, panic |-> panic,
     nSick |-> nSick, nAlive |-> nAlive, ok |-> FALSE]

\* the range check letting status 400 through
StatusOutOfRangeStrict(s) == s < StatusLow \/ s > StatusHigh

StatusOutOfRange(s) == s < StatusLow \/ s >= StatusHigh

NilEnvelope == [nil |-> TRUE, result |-> "null", val |-> 0]

Envelope(resp) ==
    [nil    |-> FALSE,
     result |-> CASE resp.body = "result" -> "ok"
                  [] resp.body = "resultBadType" -> "badType"
                  [] OTHER -> "null",
     val    |-> IF resp.body = "result" THEN resp.val ELSE 0]

\* doPost notifying a failure on a refused HTTP status too
doPostStatusSick(h, resp) ==
    IF ~resp.conn
    THEN Out(markSick(h), ConnErr, NilEnvelope, FALSE, 1, 0)
    ELSE IF StatusOutOfRange(resp.status)
    THEN Out(markSick(h), StatusErr(resp.status), NilEnvelope, FALSE, 1, 0)
    ELSE IF resp.body = "malformed"
    THEN Out(markSick(h), DecodeErr, NilEnvelope, FALSE, 1, 0)
    ELSE IF resp.body = "null"
    THEN Out(h, PanicErr, NilEnvelope, TRUE, 0, 0)
    ELSE IF resp.body = "errorNoMsg"
    THEN Out(markSick(h), PanicErr, NilEnvelope, TRUE, 1, 0)
    ELSE IF resp.body = "error"
    THEN Out(markSick(h), AppErr(resp.msg), NilEnvelope, FALSE, 1, 0)
    ELSE Out(h, NoErr, Envelope(resp), FALSE, 0, 0)

\* doPost returning a decode failure without notifying it
doPostDecodeQuiet(h, resp) ==
    IF ~resp.conn
    THEN Out(markSick(h), ConnErr, NilEnvelope, FALSE, 1, 0)
    ELSE IF StatusOutOfRange(resp.status)
    THEN Out(h, StatusErr(resp.status), NilEnvelope, FALSE, 0, 0)
    ELSE IF resp.body = "malformed"
    THEN Out(h, DecodeErr, NilEnvelope, FALSE, 0, 0)
    ELSE IF resp.body = "null"
    THEN Out(h, PanicErr, NilEnvelope, TRUE, 0, 0)
    ELSE IF resp.body = "errorNoMsg"
    THEN Out(markSick(h), PanicErr, NilEnvelope, TRUE, 1, 0)
    ELSE IF resp.body = "error"
    THEN Out(markSick(h), AppErr(resp.msg), NilEnvelope, FALSE, 1, 0)
    ELSE Out(h, NoErr, Envelope(resp), FALSE, 0, 0)

\* client.Do fails; the status is refused; the body does not decode; the
\* body is null (rpcResp stays nil and rpcResp.Error dereferences it); the
\* error object has no string message (the type assertion panics after
\* markSick); the error object has one; otherwise the envelope is returned.
doPost(h, resp) ==
    IF ~resp.conn
    THEN Out(markSick(h), ConnErr, NilEnvelope, FALSE, 1, 0)
    ELSE IF StatusOutOfRange(resp.status)
    THEN Out(h, StatusErr(resp.status), NilEnvelope, FALSE, 0, 0)
    ELSE IF resp.body = "malformed"
    THEN Out(markSick(h), DecodeErr, NilEnvelope, FALSE, 1, 0)
    ELSE IF resp.body = "null"
    THEN Out(h, PanicErr, NilEnvelope, TRUE, 0, 0)
    ELSE IF resp.body = "errorNoMsg"
    THEN Out(markSick(h), PanicErr, NilEnvelope, TRUE, 1, 0)
    ELSE IF resp.body = "error"
    THEN Out(markSick(h), AppErr(resp.msg), NilEnvelope, FALSE, 1, 0)
    ELSE Out(h, NoErr, Envelope(resp), FALSE, 0, 0)

\* ---------------------------------------------------------------- typed calls
\* json.Unmarshal(*rpcResp.Result, &reply): a result of the wrong JSON type
\* allocates the reply and reports an error
\* a null result reported as an error
unmarshalNullErr(env) ==
    IF env.result = "null" THEN [reply |-> NilReply, err |-> UnmarshalErr]
    ELSE IF env.result = "ok" THEN [reply |-> Reply(env.val), err |-> NoErr]
    ELSE [reply |-> Reply(0), err |-> UnmarshalErr]

unmarshal(env) ==
    IF env.result = "null" THEN [reply |-> NilReply, err |-> NoErr]
    ELSE IF env.result = "ok" THEN [reply |-> Reply(env.val), err |-> NoErr]
    ELSE [reply |-> Reply(0), err |-> UnmarshalErr]

\* GetBlockTemplate driving the success transition itself
GetBlockTemplateAlive(h, resp) ==
    LET p == doPost(h, resp)
    IN  IF p.panic \/ p.err # NoErr
        THEN [p EXCEPT !.reply = NilReply]
        ELSE [p EXCEPT !.h = markAlive(p.h), !.nAlive = 1,
                       !.reply = unmarshal(p.reply).reply, !.err = unmarshal(p.reply).err]

GetBlockTemplate(h, resp) ==
    LET p == doPost(h, resp)
    IN  IF p.panic \/ p.err # NoErr
        THEN [p EXCEPT !.reply = NilReply]
        ELSE [p EXCEPT !.reply = unmarshal(p.reply).reply, !.err = unmarshal(p.reply).err]

GetInfo(h, resp) ==
    LET p == doPost(h, resp)
    IN  IF p.panic \/ p.err # NoErr
        THEN [p EXCEPT !.reply = NilReply]
        ELSE [p EXCEPT !.reply = unmarshal(p.reply).reply, !.err = unmarshal(p.reply).err]

GetBlockCount(h, resp) ==
    LET p == doPost(h, resp)
    IN  IF p.panic \/ p.err # NoErr
        THEN [p EXCEPT !.reply = NilReply]
        ELSE [p EXCEPT !.reply = unmarshal(p.reply).reply, !.err = unmarshal(p.reply).err]

GetBlockHeaderByHeight(h, resp) ==
    LET p == doPost(h, resp)
    IN  IF p.panic \/ p.err # NoErr
        THEN [p EXCEPT !.reply = NilReply]
        ELSE [p EXCEPT !.reply = unmarshal(p.reply).reply, !.err = unmarshal(p.reply).err]

\* SubmitBlock hands doPost's envelope pointer back unchanged
SubmitBlock(h, resp) ==
    LET p == doPost(h, resp)
    IN  [p EXCEPT !.reply = IF p.reply.nil THEN NilReply ELSE Reply(p.reply.val)]

\* ---------------------------------------------------------------- liveness check
\* Check reporting the flag as it stood before its success transition
CheckStale(h, resp) ==
    LET g == GetBlockTemplate(h, resp)
    IN  IF g.panic THEN g
        ELSE IF g.err # NoErr
        THEN [g EXCEPT !.reply = NilReply, !.ok = FALSE]
        ELSE LET h2 == markAlive(g.h)
             IN  [g EXCEPT !.h = h2, !.reply = NilReply, !.ok = ~Sick(g.h),
                           !.nAlive = g.nAlive + 1]

Check(h, resp) ==
    LET g == GetBlockTemplate(h, resp)
    IN  IF g.panic THEN g
        ELSE IF g.err # NoErr
        THEN [g EXCEPT !.reply = NilReply, !.ok = FALSE]
        ELSE LET h2 == markAlive(g.h)
             IN  [g EXCEPT !.h = h2, !.reply = NilReply, !.ok = ~Sick(h2),
                           !.nAlive = g.nAlive + 1]

\* ---------------------------------------------------------------- info cache
\* atomic.Value: nothing stored yet, or a stored *GetInfoReply (possibly nil)
NoInfo == [set |-> FALSE, val |-> NilReply]

Store(reply) == [set |-> TRUE, val |-> reply]

UpdateInfo(h, resp) == GetInfo(h, resp)

\* UpdateInfo storing the reply before looking at the error
UpdateInfoStoreAlways(inf, g) ==
    IF ~g.panic THEN Store(g.reply) ELSE inf

\* UpdateInfo storing whenever the reply is not nil
UpdateInfoStoreNonNil(inf, g) ==
    IF ~g.panic /\ (g.err = NoErr \/ ~g.reply.nil) THEN Store(g.reply) ELSE inf

UpdateInfoStore(inf, g) ==
    IF ~g.panic /\ g.err = NoErr THEN Store(g.reply) ELSE inf

\* r.info.Load().(*GetInfoReply): nil when nothing is stored
Info(inf) == IF inf.set THEN inf.val ELSE NilReply

\* ---------------------------------------------------------------- observers
CleanAlive(h) == ~h.sick /\ h.sickRate = 0 /\ h.successRate = 0

Min(a, b) == IF a < b THEN a ELSE b

NextCleanFails(out) ==
    IF out.nSick > 0
    THEN IF CleanAlive(Health) THEN 1
         ELSE IF cleanFails > 0 THEN Min(cleanFails + 1, MaxRun) ELSE 0
    ELSE IF out.nAlive > 0 THEN 0 ELSE cleanFails

NextSickOkRun(out) ==
    IF out.nSick > 0 THEN 0
    ELSE IF out.nAlive > 0
         THEN IF sick THEN Min(sickOkRun + 1, MaxRun) ELSE 0
         ELSE sickOkRun

NextRunGrowth(out) ==
    IF out.nSick > 0 THEN Min(runGrowth + (out.h.FailsCount - FailsCount), MaxRun)
    ELSE IF out.nAlive > 0 THEN 0 ELSE runGrowth

NextProbeRun(op, resp) ==
    IF op = "Check" /\ resp.conn /\ resp.status = 500
    THEN IF probeRun > 0 THEN Min(probeRun + 1, MaxRun)
         ELSE IF ~sick THEN 1 ELSE 0
    ELSE 0

\* ---------------------------------------------------------------- actions
\* a call is made only by a running process, and the bounds stop the counters
CanCall(out) ==
    /\ ~crashed
    /\ out.h.sickRate <= MaxRate
    /\ out.h.FailsCount <= MaxFails

Commit(op, resp, out, inf) ==
    /\ CanCall(out)
    /\ sick' = out.h.sick
    /\ sickRate' = out.h.sickRate
    /\ successRate' = out.h.successRate
    /\ FailsCount' = out.h.FailsCount
    /\ info' = inf
    /\ crashed' = out.panic
    /\ last' = [op |-> op, resp |-> resp, err |-> out.err, ret |-> out.reply, ok |-> out.ok]
    /\ cleanFails' = NextCleanFails(out)
    /\ sickOkRun' = NextSickOkRun(out)
    /\ runGrowth' = NextRunGrowth(out)
    /\ probeRun' = NextProbeRun(op, resp)
    /\ UNCHANGED <<procs, mutex, start, published>>

CallGetBlockTemplate ==
    \E resp \in Responses : Commit("GetBlockTemplate", resp, GetBlockTemplate(Health, resp), info)

CallGetInfo ==
    \E resp \in Responses : Commit("GetInfo", resp, GetInfo(Health, resp), info)

CallGetBlockCount ==
    \E resp \in Responses : Commit("GetBlockCount", resp, GetBlockCount(Health, resp), info)

CallSubmitBlock ==
    \E resp \in Responses : Commit("SubmitBlock", resp, SubmitBlock(Health, resp), info)

CallGetBlockHeaderByHeight ==
    \E resp \in Responses :
        Commit("GetBlockHeaderByHeight", resp, GetBlockHeaderByHeight(Health, resp), info)

CallCheck ==
    \E resp \in Responses : Commit("Check", resp, Check(Health, resp), info)

CallUpdateInfo ==
    \E resp \in Responses :
        LET g == UpdateInfo(Health, resp)
        IN  Commit("UpdateInfo", resp, g, UpdateInfoStore(info, g))

\* ---------------------------------------------------------------- callers
Procs == 1..NProcs

Caller(op, pc) ==
    [op |-> op, pc |-> pc, tmp |-> 0, reply |-> NilReply, err |-> NoErr,
     ok |-> FALSE, own |-> FALSE, hit |-> FALSE]

Idle == Caller("idle", "done")

FreshHealth == [sick |-> FALSE, sickRate |-> 0, successRate |-> 0, FailsCount |-> 0]

FreshLast ==
    [op |-> "none", resp |-> Resp(FALSE, 0, "none", "", 0),
     err |-> NoErr, ret |-> NilReply, ok |-> FALSE]

InitWith(h, ps) ==
    /\ sick = h.sick
    /\ sickRate = h.sickRate
    /\ successRate = h.successRate
    /\ FailsCount = h.FailsCount
    /\ info = NoInfo
    /\ crashed = FALSE
    /\ last = FreshLast
    /\ cleanFails = 0
    /\ sickOkRun = 0
    /\ runGrowth = 0
    /\ probeRun = 0
    /\ procs = ps
    /\ mutex = 0
    /\ start = h
    /\ published = {}

Init == InitWith(FreshHealth, [p \in Procs |-> Idle])

Next ==
    \/ CallGetBlockTemplate
    \/ CallGetInfo
    \/ CallGetBlockCount
    \/ CallSubmitBlock
    \/ CallGetBlockHeaderByHeight
    \/ CallCheck
    \/ CallUpdateInfo

Spec == Init /\ [][Next]_vars

\* The client as its two periodic users drive it: the upstream checker, which
\* calls Check for as long as the process runs, and the block submitter.
LiveNext ==
    \/ CallCheck
    \/ CallSubmitBlock

LiveSpec == Init /\ [][LiveNext]_vars /\ WF_vars(CallCheck)

\* ---------------------------------------------------------------- concurrent callers
\* The health record under the RWMutex, one step per lock operation and per
\* read and write of the body.  A caller of op "Fail" is a call whose doPost
\* ends in markSick; a caller of op "Check" is a Check whose probe succeeded:
\* markAlive, then Sick().

\* Lock() goes through when nobody holds the mutex
CanLockAlways(m) == TRUE

CanLock(m) == m = 0

\* RLock() goes through when no writer holds the mutex; Sick() is one step,
\* so no reader holds it across steps
CanRLock(m) == m = 0

\* the health records a client can be in when the callers start: k failures
\* (Sick from the fifth on) followed by j < 5 successful Checks
StartHealth ==
    {[sick |-> k >= SickThreshold, sickRate |-> k, successRate |-> j,
      FailsCount |-> Min(k, SickThreshold)] :
        k \in 0..MaxRate, j \in 0..(AliveThreshold - 1)}

\* r.sickRate++ ; r.successRate = 0 ; if r.sickRate >= 5 { r.sick = true }
\* with the value of sickRate read in the step before
markSickStore(h, tmp) ==
    [h EXCEPT !.sickRate = tmp + 1,
              !.successRate = 0,
              !.sick = IF tmp + 1 >= SickThreshold THEN TRUE ELSE h.sick]

\* r.successRate++ ; if r.successRate >= 5 { reset }
markAliveStore(h, tmp) ==
    IF tmp + 1 >= AliveThreshold
    THEN [h EXCEPT !.sick = FALSE, !.sickRate = 0, !.successRate = 0]
    ELSE [h EXCEPT !.successRate = tmp + 1]

\* return !r.Sick()
CheckResultRaw(s) == s

CheckResult(s) == ~s

SetHealth(h) ==
    /\ sick' = h.sick
    /\ sickRate' = h.sickRate
    /\ successRate' = h.successRate
    /\ FailsCount' = h.FailsCount

\* a transition by p reaches every Check that has made its own transition and
\* has not read the flag yet
Goto(ps, p, pc) == [ps EXCEPT ![p].pc = pc]

Hit(ps, p) ==
    [q \in Procs |-> IF q # p /\ ps[q].pc = "Sick" THEN [ps[q] EXCEPT !.hit = TRUE]
                     ELSE ps[q]]

Sequential == <<info, crashed, last, cleanFails, sickOkRun, runGrowth, probeRun>>

MarkSickLock(p) ==
    /\ procs[p].pc = "markSick.Lock"
    /\ CanLock(mutex)
    /\ mutex' = p
    /\ procs' = Goto(procs, p, "markSick.read")
    /\ UNCHANGED <<sick, sickRate, successRate, FailsCount, start, published, Sequential>>

MarkSickRead(p) ==
    /\ procs[p].pc = "markSick.read"
    /\ FailsCount' = IF ~sick THEN FailsCount + 1 ELSE FailsCount
    /\ procs' = [procs EXCEPT ![p].pc = "markSick.write", ![p].tmp = sickRate]
    /\ UNCHANGED <<sick, sickRate, successRate, mutex, start, published, Sequential>>

MarkSickWrite(p) ==
    /\ procs[p].pc = "markSick.write"
    /\ SetHealth(markSickStore(Health, procs[p].tmp))
    /\ mutex' = 0
    /\ procs' = Hit(Goto(procs, p, "done"), p)
    /\ UNCHANGED <<start, published, Sequential>>

MarkAliveLock(p) ==
    /\ procs[p].pc = "markAlive.Lock"
    /\ CanLock(mutex)
    /\ mutex' = p
    /\ procs' = Goto(procs, p, "markAlive.read")
    /\ UNCHANGED <<sick, sickRate, successRate, FailsCount, start, published, Sequential>>

MarkAliveRead(p) ==
    /\ procs[p].pc = "markAlive.read"
    /\ procs' = [procs EXCEPT ![p].pc = "markAlive.write", ![p].tmp = successRate]
    /\ UNCHANGED <<sick, sickRate, successRate, FailsCount, mutex, start, published, Sequential>>

MarkAliveWrite(p) ==
    /\ procs[p].pc = "markAlive.write"
    /\ SetHealth(markAliveStore(Health, procs[p].tmp))
    /\ mutex' = 0
    /\ procs' = Hit([procs EXCEPT ![p].pc = "Sick",
                                  ![p].own = markAliveStore(Health, procs[p].tmp).sick], p)
    /\ UNCHANGED <<start, published, Sequential>>

SickRead(p) ==
    /\ procs[p].pc = "Sick"
    /\ CanRLock(mutex)
    /\ procs' = [procs EXCEPT ![p].pc = "done", ![p].ok = CheckResult(sick)]
    /\ UNCHANGED <<sick, sickRate, successRate, FailsCount, mutex, start, published, Sequential>>

\* the first n callers are Checks, the others failing calls
HealthInit ==
    \E h \in StartHealth, n \in 0..NProcs :
        InitWith(h, [p \in Procs |-> IF p <= n THEN Caller("Check", "markAlive.Lock")
                                     ELSE Caller("Fail", "markSick.Lock")])

HealthNext ==
    \E p \in Procs :
        \/ MarkSickLock(p)
        \/ MarkSickRead(p)
        \/ MarkSickWrite(p)
        \/ MarkAliveLock(p)
        \/ MarkAliveRead(p)
        \/ MarkAliveWrite(p)
        \/ SickRead(p)

HealthSpec == HealthInit /\ [][HealthNext]_vars

\* The info cache under concurrent UpdateInfo and Info callers.  UpdateInfo is
\* two steps, GetInfo (the round trip and the decoding of the reply, local to
\* the caller) and r.info.Store; Info is one atomic Load.

\* what the daemon answers to get_info here: no connection, HTTP 500, a null
\* result, a result of the wrong type, and a good result of each height
InfoResponses ==
    {r \in Responses :
        \/ ~r.conn
        \/ r.status = 500
        \/ r.status = 200 /\ r.body \in {"resultNull", "resultBadType", "result"}}

UpdateInfoGetInfo(p) ==
    /\ procs[p].pc = "GetInfo"
    /\ \E resp \in InfoResponses :
          LET g == UpdateInfo(Health, resp)
          IN  /\ SetHealth(g.h)
              /\ procs' = [procs EXCEPT ![p].pc = "Store", ![p].reply = g.reply,
                                        ![p].err = g.err]
              /\ published' = IF g.err = NoErr THEN published \cup {g.reply}
                              ELSE published
    /\ UNCHANGED <<info, mutex, start, crashed, last, cleanFails, sickOkRun,
                   runGrowth, probeRun>>

UpdateInfoStoreStep(p) ==
    /\ procs[p].pc = "Store"
    /\ info' = UpdateInfoStore(info, [panic |-> FALSE, err |-> procs[p].err,
                                      reply |-> procs[p].reply])
    /\ procs' = Goto(procs, p, "done")
    /\ UNCHANGED <<sick, sickRate, successRate, FailsCount, mutex, start, published,
                   crashed, last, cleanFails, sickOkRun, runGrowth, probeRun>>

InfoLoad(p) ==
    /\ procs[p].pc = "Load"
    /\ procs' = [procs EXCEPT ![p].pc = "done", ![p].reply = Info(info)]
    /\ UNCHANGED <<sick, sickRate, successRate, FailsCount, info, mutex, start,
                   published, crashed, last, cleanFails, sickOkRun, runGrowth, probeRun>>

\* the first n callers refresh, the others read
InfoInit ==
    \E n \in 0..NProcs :
        InitWith(FreshHealth, [p \in Procs |-> IF p <= n THEN Caller("UpdateInfo", "GetInfo")
                                               ELSE Caller("Info", "Load")])

InfoNext ==
    \E p \in Procs :
        \/ UpdateInfoGetInfo(p)
        \/ UpdateInfoStoreStep(p)
        \/ InfoLoad(p)

InfoSpec == InfoInit /\ [][InfoNext]_vars

TypeOK ==
    /\ sick \in BOOLEAN
    /\ sickRate \in 0..MaxRate
    /\ successRate \in 0..(AliveThreshold - 1)
    /\ FailsCount \in 0..MaxFails
    /\ crashed \in BOOLEAN

\* ---------------------------------------------------------------- claims
\* C1: from Alive with both streak counters at zero, five failure
\* notifications in a row make the client Sick, and Sick() is still false
\* after each of the first four.
C1_FiveFailuresMakeSick ==
    /\ cleanFails \in 1..(SickThreshold - 1) => ~Sick(Health)
    /\ cleanFails >= SickThreshold => Sick(Health)

C1_Witness == cleanFails = 5 /\ sick /\ last.err.kind \in {"conn", "decode", "app"}

\* C2: while Sick, the k-th successful Check in a row since the last failure
\* notification leaves the client Sick for k < 5 and makes it Alive with both
\* counters zero for k = 5; and if from some point on every call succeeds
\* while Check keeps being called, the client ends up Alive for good.
C2_Safe ==
    /\ sickOkRun \in 1..(AliveThreshold - 1) => Sick(Health)
    /\ sickOkRun = AliveThreshold => ~Sick(Health) /\ sickRate = 0 /\ successRate = 0
    /\ sickOkRun <= AliveThreshold

CheckSucceeded     == last'.op = "Check" /\ last'.err = NoErr
RefusedStatus      == last'.resp.conn /\ (last'.resp.status < 200 \/ last'.resp.status >= 400)
AcceptedStatus     == last'.resp.conn /\ last'.resp.status >= 200 /\ last'.resp.status < 400
ConnectionFailed   == ~last'.resp.conn
DecodeFailed       == AcceptedStatus /\ last'.resp.body = "malformed"
ApplicationError   == AcceptedStatus /\ last'.resp.body = "error"
OrdinaryCalls      == {"GetBlockTemplate", "GetInfo", "GetBlockCount", "SubmitBlock",
                       "GetBlockHeaderByHeight", "UpdateInfo"}

\* C3 (as stated): a successful Check after k < 5 failures in a row resets
\* sickRate to zero, and a successful Check that is not the fifth in a row
\* leaves a Sick client Sick.
C3_SuccessResetsSickRate ==
    [][CheckSucceeded =>
          /\ (cleanFails \in 1..(SickThreshold - 1) => sickRate' = 0)
          /\ (sick /\ successRate + 1 < AliveThreshold => sick')]_vars

\* C3 (amended): a successful Check that is not the fifth in a row leaves
\* sickRate and sick as they were and adds one to successRate; only the
\* fifth resets sickRate (with successRate, clearing sick).
C3_SuccessKeepsSickRate ==
    [][CheckSucceeded =>
          IF successRate + 1 < AliveThreshold
          THEN sickRate' = sickRate /\ sick' = sick /\ successRate' = successRate + 1
          ELSE sickRate' = 0 /\ successRate' = 0 /\ ~sick']_vars

C3_Witness ==
    /\ last.op = "Check" /\ last.err = NoErr
    /\ sickRate \in 1..4 /\ successRate = 1 /\ ~sick

\* C4 (as stated): during a run of failure notifications with no success in
\* between, FailsCount grows by at most 1.
C4_OncePerStreak == runGrowth <= 1

\* C4 (amended): during a run of failure notifications with no success in
\* between, FailsCount grows by one per failure received while Alive, hence
\* by at most 5, and never while the client is Sick.
C4_AtMostFivePerStreak ==
    /\ [](runGrowth <= SickThreshold)
    /\ [][sick => FailsCount' = FailsCount]_vars

C4_Witness == runGrowth = 5 /\ sick /\ sickRate = 6

\* C5 (as stated): at most one of sickRate and successRate is non-zero.
C5_OneCounterNonZero == sickRate = 0 \/ successRate = 0

\* C5 (amended): successRate is zero after every failure notification and
\* both counters are zero after the fifth success in a row; a state with both
\* non-zero is only produced by a successful Check that leaves sickRate as it
\* was and successRate in 1..4.
C5_BothNonZeroOnlyAfterCheck ==
    [][/\ (sickRate' # 0 /\ successRate' # 0) =>
              \/ UNCHANGED <<sickRate, successRate>>
              \/ /\ CheckSucceeded
                 /\ sickRate' = sickRate
                 /\ successRate' \in 1..(AliveThreshold - 1)
       /\ (CheckSucceeded /\ successRate = AliveThreshold - 1) =>
              sickRate' = 0 /\ successRate' = 0]_vars

C5_Witness == sickRate = 3 /\ successRate = 2

\* C6 (as stated): after five Checks in a row answered HTTP 500, the first
\* made while Alive, the client is Sick.
C6_Http500MakesSick == probeRun >= 5 => Sick(Health)

\* C6 (amended): Checks in a row answered HTTP 500, the first made while
\* Alive, each return (false, error) and notify nothing: the client is still
\* Alive after the 5th and after any later one.
C6_Http500LeavesAlive ==
    probeRun >= 1 =>
        /\ ~Sick(Health)
        /\ last.op = "Check" /\ ~last.ok
        /\ last.err.kind = "status" /\ last.err.msg = "500 Internal Server Error"

C6_Witness == probeRun = 5 /\ ~sick /\ last.resp.status = 500

\* C7: a call whose HTTP status is outside [200,400) returns an error and
\* changes neither sick, sickRate, successRate nor FailsCount, whatever the
\* call, Check included.
C7_RefusedStatusNotifiesNothing ==
    [][RefusedStatus =>
          /\ last'.err.kind = "status" /\ last'.ret = NilReply /\ ~last'.ok
          /\ UNCHANGED <<sick, sickRate, successRate, FailsCount>>]_vars

C7_Witness ==
    /\ last.op = "Check" /\ last.resp.conn /\ last.resp.status = 400
    /\ last.err.kind = "status" /\ sickRate = 2 /\ successRate = 3

\* C8: a call that ends in a connection failure, a decode failure or an
\* application error with a string message returns an error and makes
\* exactly one failure notification; the application error's message is the
\* error object's message.
C8_FailureNotifiedOnce ==
    [][(ConnectionFailed \/ DecodeFailed \/ ApplicationError) =>
          /\ last'.err # NoErr /\ last'.ret = NilReply /\ ~last'.ok
          /\ ConnectionFailed => last'.err.kind = "conn"
          /\ DecodeFailed => last'.err.kind = "decode"
          /\ ApplicationError => last'.err.kind = "app" /\ last'.err.msg = last'.resp.msg
          /\ sickRate' = sickRate + 1
          /\ successRate' = 0
          /\ FailsCount' = FailsCount + (IF sick THEN 0 ELSE 1)
          /\ sick' = (sick \/ sickRate + 1 >= 5)]_vars

C8_Witness ==
    /\ last.op = "SubmitBlock" /\ last.resp.body = "error"
    /\ last.err.msg = "Invalid params" /\ sickRate = 1 /\ FailsCount = 1

\* C9: a successful ordinary call (any call but Check) leaves sick, sickRate
\* and successRate unchanged; successRate grows and sick clears only in a
\* successful Check.
C9_OnlyCheckMarksAlive ==
    [][/\ (last'.op \in OrdinaryCalls /\ last'.err = NoErr) =>
              UNCHANGED <<sick, sickRate, successRate>>
       /\ (successRate' > successRate \/ (sick /\ ~sick')) => CheckSucceeded]_vars

C9_Witness ==
    /\ sick /\ successRate = 4
    /\ last.op = "GetBlockTemplate" /\ last.err = NoErr /\ ~last.ret.nil

\* C10: Info() is empty at first and stays so until an UpdateInfo succeeds;
\* a successful UpdateInfo makes Info() return the reply it returned; a
\* failing UpdateInfo returns an error and leaves the snapshot alone.
C10_InfoFollowsUpdateInfo ==
    /\ Info(info) = NilReply
    /\ [][/\ last'.op # "UpdateInfo" => info' = info
          /\ (last'.op = "UpdateInfo" /\ last'.err = NoErr) => Info(info') = last'.ret
          /\ (last'.op = "UpdateInfo" /\ last'.err # NoErr) => info' = info]_vars

C10_Witness ==
    /\ Info(info) = Reply(100)
    /\ last.op = "UpdateInfo" /\ last.err.kind = "unmarshal"

\* a step in which markSick ran: the three failures of doPost, and the error
\* object without a string message (markSick runs before the panic)
FailureNotified ==
    \/ ConnectionFailed \/ DecodeFailed \/ ApplicationError
    \/ AcceptedStatus /\ last'.resp.body = "errorNoMsg"

\* C13: sick turns true only in a failure notification that leaves sickRate
\* at 5 or more; sick turns false only in a successful Check that brings
\* successRate to 5 and leaves both counters zero.
C13_SickChangesAtThresholds ==
    [][/\ (~sick /\ sick') => FailureNotified /\ sickRate' >= 5
       /\ (sick /\ ~sick') =>
              /\ CheckSucceeded /\ successRate + 1 = 5
              /\ sickRate' = 0 /\ successRate' = 0]_vars

C13_Witness ==
    /\ ~sick /\ sickRate = 0 /\ successRate = 0
    /\ sickOkRun = 5 /\ FailsCount = 5 /\ last.op = "Check"

\* C14: a failure notification adds one to FailsCount exactly when the client
\* was Alive before it and leaves it alone when the client was Sick; a
\* successful Check leaves it alone; it never decreases.
C14_FailsCountCountsAliveFailures ==
    [][/\ FailureNotified => FailsCount' = FailsCount + (IF sick THEN 0 ELSE 1)
       /\ CheckSucceeded => FailsCount' = FailsCount
       /\ FailsCount' >= FailsCount]_vars

C14_Witness ==
    /\ sick /\ sickRate = 6 /\ FailsCount = 5
    /\ last.err.kind = "decode" /\ cleanFails = 6

\* C15: a Check whose probe returns an error returns false with that error
\* and makes no success transition; a Check whose probe succeeds makes
\* exactly one success transition and returns the negation of the sick flag
\* with no error.
C15_CheckReturnsNotSick ==
    [][(last'.op = "Check" /\ last'.err.kind # "panic") =>
          IF last'.err # NoErr
          THEN /\ ~last'.ok
               /\ ConnectionFailed => last'.err = ConnErr
               /\ RefusedStatus => last'.err.kind = "status"
               /\ DecodeFailed => last'.err = DecodeErr
               /\ ApplicationError => last'.err.msg = last'.resp.msg
               /\ successRate' \in {0, successRate}
               /\ sick => sick'
          ELSE /\ last'.ok = ~sick'
               /\ FailsCount' = FailsCount
               /\ IF successRate + 1 >= 5
                  THEN ~sick' /\ sickRate' = 0 /\ successRate' = 0
                  ELSE sick' = sick /\ sickRate' = sickRate
                       /\ successRate' = successRate + 1]_vars

C15_Witness ==
    /\ last.op = "Check" /\ last.err = NoErr /\ last.ok
    /\ sickOkRun = 5 /\ last.resp.body = "result"

\* C16: a response with no error and a null result makes each typed call
\* return a nil reply and no error and notifies no failure; a Check whose
\* probe gets it makes its success transition.
C16_NullResultIsNoError ==
    [][(AcceptedStatus /\ last'.resp.body = "resultNull") =>
          /\ last'.err = NoErr
          /\ last'.op \in {"GetBlockTemplate", "GetInfo", "GetBlockCount",
                          "GetBlockHeaderByHeight"} => last'.ret = NilReply
          /\ FailsCount' = FailsCount
          /\ IF last'.op = "Check"
             THEN successRate' = (successRate + 1) % 5 /\ last'.ok = ~sick'
             ELSE UNCHANGED <<sick, sickRate, successRate>>]_vars

C16_Witness ==
    /\ last.op = "Check" /\ last.resp.body = "resultNull" /\ last.resp.status = 399
    /\ last.err = NoErr /\ last.ok /\ successRate = 1

\* C17 (as stated): when a failure notification turns an Alive client Sick,
\* the five most recent health events were all failure notifications.  While
\* the client is Alive every failure adds one to FailsCount, so runGrowth is
\* the number of failure notifications since the last successful Check.
C17_SickOnlyByUnbrokenStreak ==
    [][(~sick /\ sick') => FailureNotified /\ runGrowth' >= 5]_vars

\* C17 (amended): when a failure notification turns an Alive client Sick, it
\* is the fifth failure notification since the counters were last reset (at
\* start or by five successful Checks in a row): sickRate goes from 4 to 5,
\* whether or not successful Checks came between the five failures, because
\* every failure notification adds one to sickRate and a successful Check
\* that is not the fifth in a row leaves it alone.
C17_SickAtFifthFailureSinceReset ==
    [][/\ (~sick /\ sick') =>
              /\ FailureNotified
              /\ sickRate = 4 /\ sickRate' = 5
              /\ runGrowth' \in 1..5
       /\ FailureNotified => sickRate' = sickRate + 1
       /\ (CheckSucceeded /\ successRate + 1 < 5) => sickRate' = sickRate]_vars

C17_Witness == sick /\ sickRate = 5 /\ runGrowth = 1 /\ cleanFails = 0 /\ FailsCount = 5

\* C18: doPost always returns to its caller: the process never dies of a
\* panic.
C18_DoPostNeverAborts == ~crashed

\* C19: once Info() has returned a non-empty snapshot it never returns empty
\* again.
C19_InfoStaysNonEmpty ==
    [][Info(info) # NilReply => Info(info') # NilReply]_vars

\* ---------------------------------------------------------------- concurrent claims
AllDone == \A p \in Procs : procs[p].pc = "done"

NumOf(op) == Cardinality({p \in Procs : procs[p].op = op})

\* the health records that n success transitions and m failure notifications
\* applied one at a time, in any order, lead to
RECURSIVE Serial(_, _, _)
Serial(h, n, m) ==
    IF n = 0 /\ m = 0 THEN {h}
    ELSE (IF n > 0 THEN Serial(markAlive(h), n - 1, m) ELSE {})
         \cup (IF m > 0 THEN Serial(markSick(h), n, m - 1) ELSE {})

Triple(h) == <<h.sick, h.sickRate, h.successRate>>

\* C11: with UpdateInfo and Info callers interleaved, every non-empty
\* snapshot Info() returns, and every snapshot in the cache, is the whole
\* reply that one successful refresh returned, never the reply of a refresh
\* that returned an error.
C11_SnapshotIsOneSuccessfulRefresh ==
    /\ \A p \in Procs :
          (procs[p].op = "Info" /\ procs[p].pc = "done" /\ ~procs[p].reply.nil) =>
              /\ procs[p].reply \in published
              /\ procs[p].reply \in {Reply(v) : v \in Heights}
    /\ info.set => info.val \in published

C11_Witness ==
    /\ \E p \in Procs :
          procs[p].op = "Info" /\ procs[p].pc = "done" /\ procs[p].reply = Reply(101)
    /\ \E q \in Procs : procs[q].pc = "done" /\ procs[q].err = UnmarshalErr
    /\ info = Store(Reply(101)) /\ Cardinality(published) = 1

\* C12: when N successful Checks and M failing calls have all run, in any
\* interleaving, (sick, sickRate, successRate) is what applying the N + M
\* transitions one at a time in some order gives; no counter is ever
\* negative.
C12_SomeSerialization ==
    /\ sickRate >= 0 /\ successRate >= 0
    /\ AllDone =>
          Triple(Health) \in {Triple(h) : h \in Serial(start, NumOf("Check"), NumOf("Fail"))}

C12_Witness ==
    /\ AllDone /\ NumOf("Check") = 2 /\ NumOf("Fail") = 1
    /\ start.sick /\ start.successRate = 3
    /\ ~sick /\ sickRate = 1 /\ successRate = 0

\* C20 (as stated): the boolean a successful Check returns is the negation
\* of the sick flag as it stood right after that Check's own success
\* transition.
C20_CheckReportsOwnTransition ==
    \A p \in Procs :
        (procs[p].op = "Check" /\ procs[p].pc = "done") => procs[p].ok = ~procs[p].own

\* C20 (amended): the boolean a successful Check returns is the negation of
\* the sick flag as Sick() reads it, in a critical section of its own after
\* the Check's success transition; it is the flag as the Check's own
\* transition left it when no other caller's transition ran in between.
C20_CheckReportsFlagAsRead ==
    /\ [](\A p \in Procs :
            (procs[p].op = "Check" /\ procs[p].pc = "done" /\ ~procs[p].hit)
                => procs[p].ok = ~procs[p].own)
    /\ [][\A p \in Procs :
            (procs[p].pc = "Sick" /\ procs'[p].pc = "done") => procs'[p].ok = ~sick]_vars

C20_Witness ==
    \E p \in Procs :
        /\ procs[p].op = "Check" /\ procs[p].pc = "done"
        /\ procs[p].hit /\ procs[p].own /\ procs[p].ok
====
